---- MODULE Spec2Model ----
(***************************************************************************)
(* lib/rwsem.c: contention handling of the R/W semaphore.                  *)
(*                                                                         *)
(* Every thread runs the client loop                                       *)
(*   idle -> down_read | down_write -> hold -> up_* | downgrade -> idle    *)
(* The fast paths (one atomic operation on sem->count each) live in the    *)
(* rwsem header; the slow paths are the functions of lib/rwsem.c, cut at    *)
(* every atomic operation on count, every spin_lock/spin_unlock and every  *)
(* unlocked read or write of waiter->task and of the task state.           *)
(***************************************************************************)
EXTENDS Integers, Sequences, FiniteSets, TLC

\* ------------------------------------------------------------------ bounds
\* total number of down_read/down_write calls in a behaviour
MaxOps == 4

Threads == {"t1", "t2", "t3"}

\* ------------------------------------------------- bias encoding of count
RWSEM_UNLOCKED_VALUE == 0
RWSEM_ACTIVE_BIAS == 1
RWSEM_ACTIVE_MASK == 65535
RWSEM_WAITING_BIAS == -65536
RWSEM_ACTIVE_READ_BIAS == RWSEM_ACTIVE_BIAS
RWSEM_ACTIVE_WRITE_BIAS == RWSEM_WAITING_BIAS + RWSEM_ACTIVE_BIAS

RWSEM_WAITING_FOR_READ == 1
RWSEM_WAITING_FOR_WRITE == 2

NULL == "NULL"
TASK_RUNNING == "TASK_RUNNING"
TASK_UNINTERRUPTIBLE == "TASK_UNINTERRUPTIBLE"

\* count & RWSEM_ACTIVE_MASK on a two's complement long
Active(c) == c % (RWSEM_ACTIVE_MASK + 1)

VARIABLES
    count,        \* sem->count
    wait_list,    \* sem->wait_list: the linked waiters, head first (owner ids)
    wait_lock,    \* sem->wait_lock: NULL or the thread that holds it
    task,         \* waiter->task of each thread's on-stack rwsem_waiter
    flags,        \* waiter->flags of each thread's on-stack rwsem_waiter
    state,        \* tsk->state of each thread
    pc,           \* each thread's position
    adjustment,   \* local 'adjustment' of rwsem_down_failed_common / try_get_writer_sem
    caller,       \* which function called __rwsem_do_wake (its return address)
    loop,         \* local 'loop' of __rwsem_do_wake
    next,         \* local 'next' of __rwsem_do_wake, as a position in wait_list
    held,         \* what each thread holds after its acquire returned
    ops,          \* number of acquire calls so far
    tg_call       \* history of each thread's try_get_writer_sem call in progress:
                  \* wait_list at entry, net change made to count, atomic updates

vars == <<count, wait_list, wait_lock, task, flags, state, pc, adjustment,
          caller, loop, next, held, ops, tg_call>>

\* mutant: the counter starts with a waiting unit
init_count_waiting == RWSEM_WAITING_BIAS

\* sem->count = RWSEM_UNLOCKED_VALUE
init_count == RWSEM_UNLOCKED_VALUE

\* history of a thread outside try_get_writer_sem
no_call == [entry |-> <<>>, net |-> 0, tries |-> 0]

\* __init_rwsem, and every thread outside the semaphore
Init ==
    /\ count = init_count
    /\ wait_list = <<>>
    /\ wait_lock = NULL
    /\ task = [t \in Threads |-> NULL]
    /\ flags = [t \in Threads |-> 0]
    /\ state = [t \in Threads |-> TASK_RUNNING]
    /\ pc = [t \in Threads |-> "idle"]
    /\ adjustment = [t \in Threads |-> 0]
    /\ caller = [t \in Threads |-> NULL]
    /\ loop = [t \in Threads |-> 0]
    /\ next = [t \in Threads |-> 0]
    /\ held = [t \in Threads |-> "none"]
    /\ ops = 0
    /\ tg_call = [t \in Threads |-> no_call]

\* the variables of the semaphore's queue and of the waiter records
qvars == <<wait_list, task, flags>>
\* the locals of __rwsem_do_wake
wvars == <<caller, loop, next>>

\* wake_up_process(tsk): a sleeping task is made runnable, others are unaffected
wake_up_process(st, tsk) ==
    IF tsk \in Threads THEN [st EXCEPT ![tsk] = TASK_RUNNING] ELSE st

\* ------------------------------------------------------------ fast paths
\* __down_read: atomic increment; a negative result means contention
down_read(t) ==
    /\ pc[t] = "idle"
    /\ ops < MaxOps
    /\ ops' = ops + 1
    /\ count' = count + RWSEM_ACTIVE_READ_BIAS
    /\ IF count' < 0
         THEN /\ pc' = [pc EXCEPT ![t] = "rwsem_down_read_failed"]
              /\ held' = held
         ELSE /\ pc' = [pc EXCEPT ![t] = "holding"]
              /\ held' = [held EXCEPT ![t] = "read"]
    /\ UNCHANGED <<wait_lock, qvars, state, adjustment, wvars, tg_call>>

\* __down_write: atomic add of the write bias; any other owner means contention
down_write(t) ==
    /\ pc[t] = "idle"
    /\ ops < MaxOps
    /\ ops' = ops + 1
    /\ count' = count + RWSEM_ACTIVE_WRITE_BIAS
    /\ IF count' # RWSEM_ACTIVE_WRITE_BIAS
         THEN /\ pc' = [pc EXCEPT ![t] = "rwsem_down_write_failed"]
              /\ held' = held
         ELSE /\ pc' = [pc EXCEPT ![t] = "holding"]
              /\ held' = [held EXCEPT ![t] = "write"]
    /\ UNCHANGED <<wait_lock, qvars, state, adjustment, wvars, tg_call>>

\* __up_read: atomic decrement; wake if waiters exist and no holder is left
up_read(t) ==
    /\ pc[t] = "holding"
    /\ held[t] = "read"
    /\ count' = count - RWSEM_ACTIVE_READ_BIAS
    /\ held' = [held EXCEPT ![t] = "none"]
    /\ pc' = [pc EXCEPT ![t] =
                IF count' < -1 /\ Active(count') = 0 THEN "rwsem_wake" ELSE "idle"]
    /\ UNCHANGED <<wait_lock, qvars, state, adjustment, wvars, ops, tg_call>>

\* __up_write: atomic subtract of the write bias; wake if waiters exist
up_write(t) ==
    /\ pc[t] = "holding"
    /\ held[t] = "write"
    /\ count' = count - RWSEM_ACTIVE_WRITE_BIAS
    /\ held' = [held EXCEPT ![t] = "none"]
    /\ pc' = [pc EXCEPT ![t] = IF count' < 0 THEN "rwsem_wake" ELSE "idle"]
    /\ UNCHANGED <<wait_lock, qvars, state, adjustment, wvars, ops, tg_call>>

\* __downgrade_write: atomic removal of the writer's waiting bias
downgrade_write(t) ==
    /\ pc[t] = "holding"
    /\ held[t] = "write"
    /\ count' = count - RWSEM_WAITING_BIAS
    /\ held' = [held EXCEPT ![t] = "read"]
    /\ pc' = [pc EXCEPT ![t] =
                IF count' < 0 THEN "rwsem_downgrade_wake" ELSE "holding"]
    /\ UNCHANGED <<wait_lock, qvars, state, adjustment, wvars, ops, tg_call>>

\* ---------------------------------------------------- blocking acquire
IsRead(f) == f % 2 = 1            \* f & RWSEM_WAITING_FOR_READ
IsWrite(f) == (f \div 2) % 2 = 1  \* f & RWSEM_WAITING_FOR_WRITE

\* the adjustment rwsem_down_read_failed passes on
read_failed_adjustment == RWSEM_WAITING_BIAS - RWSEM_ACTIVE_BIAS
\* mutant: the writer gives back its whole fast-path bias, waiting part included
write_failed_adjustment_all == - RWSEM_ACTIVE_WRITE_BIAS

\* the adjustment rwsem_down_write_failed passes on
write_failed_adjustment == - RWSEM_ACTIVE_BIAS

\* rwsem_down_read_failed up to set_task_state() of rwsem_down_failed_common
rwsem_down_read_failed(t) ==
    /\ pc[t] = "rwsem_down_read_failed"
    /\ flags' = [flags EXCEPT ![t] = RWSEM_WAITING_FOR_READ]
    /\ adjustment' = [adjustment EXCEPT ![t] = read_failed_adjustment]
    /\ state' = [state EXCEPT ![t] = TASK_UNINTERRUPTIBLE]
    /\ pc' = [pc EXCEPT ![t] = "dfc_enqueue"]
    /\ UNCHANGED <<count, wait_list, wait_lock, task, wvars, held, ops, tg_call>>

\* rwsem_down_write_failed up to set_task_state() of rwsem_down_failed_common
rwsem_down_write_failed(t) ==
    /\ pc[t] = "rwsem_down_write_failed"
    /\ flags' = [flags EXCEPT ![t] = RWSEM_WAITING_FOR_WRITE]
    /\ adjustment' = [adjustment EXCEPT ![t] = write_failed_adjustment]
    /\ state' = [state EXCEPT ![t] = TASK_UNINTERRUPTIBLE]
    /\ pc' = [pc EXCEPT ![t] = "dfc_enqueue"]
    /\ UNCHANGED <<count, wait_list, wait_lock, task, wvars, held, ops, tg_call>>

\* list_add_tail(&waiter->list, &sem->wait_list)
list_add_tail(list, t) == Append(list, t)

\* spin_lock_irq; waiter->task = tsk; list_add_tail
dfc_enqueue(t) ==
    /\ pc[t] = "dfc_enqueue"
    /\ wait_lock = NULL
    /\ wait_lock' = t
    /\ task' = [task EXCEPT ![t] = t]
    /\ wait_list' = list_add_tail(wait_list, t)
    /\ pc' = [pc EXCEPT ![t] = "dfc_adjust"]
    /\ UNCHANGED <<count, flags, state, adjustment, wvars, held, ops, tg_call>>

\* count = rwsem_atomic_update(adjustment, sem); no active locks: __rwsem_do_wake(sem, 0)
dfc_adjust(t) ==
    /\ pc[t] = "dfc_adjust"
    /\ count' = count + adjustment[t]
    /\ IF Active(count') = 0
         THEN /\ pc' = [pc EXCEPT ![t] = "do_wake"]
              /\ caller' = [caller EXCEPT ![t] = "rwsem_down_failed_common"]
         ELSE /\ pc' = [pc EXCEPT ![t] = "dfc_unlock"]
              /\ caller' = caller
    /\ adjustment' = [adjustment EXCEPT ![t] = 0]
    /\ UNCHANGED <<wait_list, wait_lock, task, flags, state, loop, next, held, ops, tg_call>>

\* spin_unlock_irq after the enqueue
dfc_unlock(t) ==
    /\ pc[t] = "dfc_unlock"
    /\ wait_lock' = NULL
    /\ pc' = [pc EXCEPT ![t] = "dfc_wait"]
    /\ caller' = [caller EXCEPT ![t] = NULL]
    /\ UNCHANGED <<count, qvars, state, adjustment, loop, next, held, ops, tg_call>>

\* what a thread holds once its blocking acquire returns
granted_kind(f) == IF IsWrite(f) THEN "write" ELSE "read"

\* mutant: the wait loop is left whatever waiter->task holds
granted_always(tsk) == TRUE

\* if (!waiter->task) break
granted(tsk) == tsk = NULL

\* top of the wait loop: if (!waiter->task) break; tsk->state = TASK_RUNNING; return
\* (the return ends the lifetime of the caller's on-stack waiter)
dfc_wait(t) ==
    /\ pc[t] = "dfc_wait"
    /\ IF granted(task[t])
         THEN /\ state' = [state EXCEPT ![t] = TASK_RUNNING]
              /\ held' = [held EXCEPT ![t] = granted_kind(flags[t])]
              /\ flags' = [flags EXCEPT ![t] = 0]
              /\ pc' = [pc EXCEPT ![t] = "holding"]
         ELSE /\ pc' = [pc EXCEPT ![t] = "dfc_lock"]
              /\ UNCHANGED <<state, held, flags>>
    /\ UNCHANGED <<count, wait_lock, wait_list, task, adjustment, wvars, ops, tg_call>>

\* raw_spin_lock_irq in the wait loop; writers go on to try_get_writer_sem.
\* The source tests 'flags', which this function does not declare, and passes
\* '&waiter'; they are read as waiter->flags and waiter, the waiter queued above.
dfc_lock(t) ==
    /\ pc[t] = "dfc_lock"
    /\ wait_lock = NULL
    /\ wait_lock' = t
    /\ pc' = [pc EXCEPT ![t] =
                IF flags[t] = RWSEM_WAITING_FOR_WRITE THEN "try_get_writer_sem"
                                                      ELSE "dfc_unlock_sleep"]
    /\ tg_call' = [tg_call EXCEPT ![t] =
                     IF flags[t] = RWSEM_WAITING_FOR_WRITE
                       THEN [no_call EXCEPT !.entry = wait_list]
                       ELSE no_call]
    /\ UNCHANGED <<count, qvars, state, adjustment, wvars, held, ops>>

\* mutant: schedule() is entered with wait_lock still held
dfc_unlock_sleep_keep(t) ==
    /\ pc[t] = "dfc_unlock_sleep"
    /\ pc' = [pc EXCEPT ![t] = "schedule"]
    /\ tg_call' = [tg_call EXCEPT ![t] = no_call]
    /\ UNCHANGED <<count, wait_lock, qvars, state, adjustment, wvars, held, ops>>

\* raw_spin_unlock_irq before schedule()
dfc_unlock_sleep(t) ==
    /\ pc[t] = "dfc_unlock_sleep"
    /\ wait_lock' = NULL
    /\ pc' = [pc EXCEPT ![t] = "schedule"]
    /\ tg_call' = [tg_call EXCEPT ![t] = no_call]
    /\ UNCHANGED <<count, qvars, state, adjustment, wvars, held, ops>>

\* schedule() returns once the task is runnable; set_task_state(UNINTERRUPTIBLE)
schedule(t) ==
    /\ pc[t] = "schedule"
    /\ state[t] = TASK_RUNNING
    /\ state' = [state EXCEPT ![t] = TASK_UNINTERRUPTIBLE]
    /\ pc' = [pc EXCEPT ![t] = "dfc_wait"]
    /\ UNCHANGED <<count, wait_lock, qvars, adjustment, wvars, held, ops, tg_call>>

\* ------------------------------------------------- writer lock stealing
\* mutant: steal whatever the first waiter is
steal_allowed_always(list, fl, t) == TRUE

\* only steal when first waiter is writing
steal_allowed(list, fl, t) == IsWrite(fl[list[1]])

\* fwaiter == waiter && waiter->list.next == &sem->wait_list
only_waiter(list, t) == list[1] = t /\ list[Len(list)] = t

\* the adjustment try_get_writer_sem applies
steal_adjustment(list, t) ==
    IF only_waiter(list, t)
      THEN RWSEM_ACTIVE_WRITE_BIAS - RWSEM_WAITING_BIAS
      ELSE RWSEM_ACTIVE_WRITE_BIAS

\* mutant: the waiter stays linked
list_del_none(list, t) == list

\* list_del(&waiter->list)
list_del(list, t) == SelectSeq(list, LAMBDA x : x # t)

\* try_get_writer_sem: look at the first waiter, compute the adjustment
try_get_writer_sem(t) ==
    /\ pc[t] = "try_get_writer_sem"
    /\ IF steal_allowed(wait_list, flags, t)
         THEN /\ adjustment' = [adjustment EXCEPT ![t] = steal_adjustment(wait_list, t)]
              /\ pc' = [pc EXCEPT ![t] = "tg_update"]
         ELSE /\ adjustment' = adjustment
              /\ pc' = [pc EXCEPT ![t] = "dfc_unlock_sleep"]
    /\ UNCHANGED <<count, wait_lock, qvars, state, wvars, held, ops, tg_call>>

\* mutant: the steal goes ahead whatever the old count was
no_active_lock_always(oldcount) == TRUE

\* !(oldcount & RWSEM_ACTIVE_MASK)
no_active_lock(oldcount) == Active(oldcount) = 0

\* try_again_write: oldcount = rwsem_atomic_update(adjustment, sem) - adjustment
tg_update(t) ==
    /\ pc[t] = "tg_update"
    /\ count' = count + adjustment[t]
    /\ pc' = [pc EXCEPT ![t] =
                IF no_active_lock(count' - adjustment[t]) THEN "tg_steal"
                                                          ELSE "tg_rollback"]
    /\ tg_call' = [tg_call EXCEPT ![t].net = @ + (count' - count),
                                  ![t].tries = @ + 1]
    /\ UNCHANGED <<wait_lock, qvars, state, adjustment, wvars, held, ops>>

\* No active lock: list_del, tsk->state = TASK_RUNNING, return 1
\* (waiter->task keeps its value)
tg_steal(t) ==
    /\ pc[t] = "tg_steal"
    /\ wait_list' = list_del(wait_list, t)
    /\ state' = [state EXCEPT ![t] = TASK_RUNNING]
    /\ adjustment' = [adjustment EXCEPT ![t] = 0]
    /\ pc' = [pc EXCEPT ![t] = "dfc_unlock_return"]
    /\ UNCHANGED <<count, wait_lock, task, flags, wvars, held, ops, tg_call>>

\* mutant: go round again whatever the roll-back observes
retry_steal_always(newcount) == TRUE

\* if (rwsem_atomic_update(-adjustment, sem) & RWSEM_ACTIVE_MASK) return 0;
\* goto try_again_write
retry_steal(newcount) == Active(newcount) = 0

\* mutant: return 0 without taking the adjustment back
tg_rollback_none(t) ==
    /\ pc[t] = "tg_rollback"
    /\ pc' = [pc EXCEPT ![t] = "dfc_unlock_sleep"]
    /\ adjustment' = [adjustment EXCEPT ![t] = 0]
    /\ UNCHANGED <<count, wait_lock, qvars, state, wvars, held, ops, tg_call>>

\* some one grabbed the sem already: roll back, return 0 or try again
tg_rollback(t) ==
    /\ pc[t] = "tg_rollback"
    /\ count' = count - adjustment[t]
    /\ IF retry_steal(count')
         THEN /\ pc' = [pc EXCEPT ![t] = "tg_update"]
              /\ adjustment' = adjustment
         ELSE /\ pc' = [pc EXCEPT ![t] = "dfc_unlock_sleep"]
              /\ adjustment' = [adjustment EXCEPT ![t] = 0]
    /\ tg_call' = [tg_call EXCEPT ![t].net = @ + (count' - count)]
    /\ UNCHANGED <<wait_lock, qvars, state, wvars, held, ops>>

\* try_get_writer_sem returned 1: raw_spin_unlock_irq; return sem
\* (the return ends the lifetime of the caller's on-stack waiter)
dfc_unlock_return(t) ==
    /\ pc[t] = "dfc_unlock_return"
    /\ wait_lock' = NULL
    /\ held' = [held EXCEPT ![t] = "write"]
    /\ task' = [task EXCEPT ![t] = NULL]
    /\ flags' = [flags EXCEPT ![t] = 0]
    /\ pc' = [pc EXCEPT ![t] = "holding"]
    /\ tg_call' = [tg_call EXCEPT ![t] = no_call]
    /\ UNCHANGED <<count, wait_list, state, adjustment, wvars, ops>>

\* ------------------------------------------------------ __rwsem_do_wake
\* where __rwsem_do_wake returns to
wake_return(c) ==
    IF c = "rwsem_down_failed_common" THEN "dfc_unlock" ELSE "wake_unlock"

\* the downgrading argument of the call in progress
downgrading(c) == c = "rwsem_downgrade_wake"

\* !downgrading: wake_up_process(waiter->task) with 'waiter' never assigned.
\* The read of the uninitialized pointer yields any task, or none (a fault on
\* the dereference would stop the machine and is not followed further).
do_wake_writer(t) ==
    /\ pc[t] = "do_wake"
    /\ ~ downgrading(caller[t])
    /\ \E tsk \in Threads \cup {NULL} : state' = wake_up_process(state, tsk)
    /\ pc' = [pc EXCEPT ![t] = wake_return(caller[t])]
    /\ UNCHANGED <<count, wait_lock, qvars, adjustment, wvars, held, ops, tg_call>>

\* mutant: the scan does not stop at a writer
count_readers_all(list, fl, i, woken) == Len(list)

RECURSIVE count_readers(_, _, _, _)
\* the do { woken++; ... } while (waiter->flags & RWSEM_WAITING_FOR_READ) loop,
\* with 'waiter' at position i of the list
count_readers(list, fl, i, woken) ==
    IF i = Len(list) THEN woken + 1
    ELSE IF IsRead(fl[list[i + 1]]) THEN count_readers(list, fl, i + 1, woken + 1)
    ELSE woken + 1

\* mutant: one active unit is taken off in a downgrade too
woken_adjustment_less(woken, dg) ==
    woken * (RWSEM_ACTIVE_BIAS - RWSEM_WAITING_BIAS) - RWSEM_ACTIVE_BIAS

\* woken *= RWSEM_ACTIVE_BIAS - RWSEM_WAITING_BIAS; if (!downgrading) woken -= RWSEM_ACTIVE_BIAS
woken_adjustment(woken, dg) ==
    woken * (RWSEM_ACTIVE_BIAS - RWSEM_WAITING_BIAS)
      - (IF dg THEN 0 ELSE RWSEM_ACTIVE_BIAS)

\* mutant: the downgrading wake does not look at the front waiter's flags
front_is_writer_never(list, fl) == FALSE

\* dont_wake_writers: a writer at the front ends the call
front_is_writer(list, fl) == IsWrite(fl[list[1]])

\* dont_wake_writers / readers_only: look at the front waiter, count the readers
do_wake_scan(t) ==
    /\ pc[t] = "do_wake"
    /\ downgrading(caller[t])
    /\ IF front_is_writer(wait_list, flags)
         THEN /\ pc' = [pc EXCEPT ![t] = wake_return(caller[t])]
              /\ UNCHANGED <<loop, next>>
         ELSE /\ loop' = [loop EXCEPT ![t] = count_readers(wait_list, flags, 1, 0)]
              /\ next' = [next EXCEPT ![t] = 1]
              /\ pc' = [pc EXCEPT ![t] = "do_wake_add"]
    /\ UNCHANGED <<count, wait_lock, qvars, state, adjustment, caller, held, ops, tg_call>>

\* mutant: the readers are granted without being counted into count
do_wake_add_none(t) ==
    /\ pc[t] = "do_wake_add"
    /\ pc' = [pc EXCEPT ![t] = "do_wake_grant"]
    /\ UNCHANGED <<count, wait_lock, qvars, state, adjustment, wvars, held, ops,
                   tg_call>>

\* rwsem_atomic_add(woken, sem); next = sem->wait_list.next
do_wake_add(t) ==
    /\ pc[t] = "do_wake_add"
    /\ count' = count + woken_adjustment(loop[t], downgrading(caller[t]))
    /\ pc' = [pc EXCEPT ![t] = "do_wake_grant"]
    /\ UNCHANGED <<wait_lock, qvars, state, adjustment, wvars, held, ops, tg_call>>

\* one turn of for (; loop > 0; loop--): tsk = waiter->task; smp_mb();
\* waiter->task = NULL
do_wake_grant(t) ==
    /\ pc[t] = "do_wake_grant"
    /\ loop[t] > 0
    /\ task' = [task EXCEPT ![wait_list[next[t]]] = NULL]
    /\ pc' = [pc EXCEPT ![t] = "do_wake_notify"]
    /\ UNCHANGED <<count, wait_list, wait_lock, flags, state, adjustment, wvars,
                   held, ops, tg_call>>

\* mutant: the granted waiter's thread is not woken
do_wake_notify_none(t) ==
    /\ pc[t] = "do_wake_notify"
    /\ next' = [next EXCEPT ![t] = next[t] + 1]
    /\ loop' = [loop EXCEPT ![t] = loop[t] - 1]
    /\ pc' = [pc EXCEPT ![t] = "do_wake_grant"]
    /\ UNCHANGED <<count, wait_list, wait_lock, task, flags, state, adjustment,
                   caller, held, ops, tg_call>>

\* wake_up_process(tsk); put_task_struct(tsk); next waiter
\* (tsk, read from waiter->task before it was cleared, is the waiter's owner)
do_wake_notify(t) ==
    /\ pc[t] = "do_wake_notify"
    /\ state' = wake_up_process(state, wait_list[next[t]])
    /\ next' = [next EXCEPT ![t] = next[t] + 1]
    /\ loop' = [loop EXCEPT ![t] = loop[t] - 1]
    /\ pc' = [pc EXCEPT ![t] = "do_wake_grant"]
    /\ UNCHANGED <<count, wait_list, wait_lock, task, flags, adjustment, caller,
                   held, ops, tg_call>>

\* mutant: the woken waiters stay linked
relink_none(list, nxt) == list

\* sem->wait_list.next = next; next->prev = &sem->wait_list
relink(list, nxt) == SubSeq(list, nxt, Len(list))

\* end of the loop: unlink the woken waiters from the front of the list
do_wake_relink(t) ==
    /\ pc[t] = "do_wake_grant"
    /\ loop[t] = 0
    /\ wait_list' = relink(wait_list, next[t])
    /\ next' = [next EXCEPT ![t] = 0]
    /\ pc' = [pc EXCEPT ![t] = wake_return(caller[t])]
    /\ UNCHANGED <<count, wait_lock, task, flags, state, adjustment, caller,
                   loop, held, ops, tg_call>>

\* --------------------------------------- rwsem_wake, rwsem_downgrade_wake
\* spin_lock_irqsave; if (!list_empty(&sem->wait_list)) __rwsem_do_wake(sem, 0)
rwsem_wake(t) ==
    /\ pc[t] = "rwsem_wake"
    /\ wait_lock = NULL
    /\ wait_lock' = t
    /\ caller' = [caller EXCEPT ![t] = "rwsem_wake"]
    /\ pc' = [pc EXCEPT ![t] = IF wait_list # <<>> THEN "do_wake" ELSE "wake_unlock"]
    /\ UNCHANGED <<count, qvars, state, adjustment, loop, next, held, ops, tg_call>>

\* spin_lock_irqsave; if (!list_empty(&sem->wait_list)) __rwsem_do_wake(sem, 1)
rwsem_downgrade_wake(t) ==
    /\ pc[t] = "rwsem_downgrade_wake"
    /\ wait_lock = NULL
    /\ wait_lock' = t
    /\ caller' = [caller EXCEPT ![t] = "rwsem_downgrade_wake"]
    /\ pc' = [pc EXCEPT ![t] = IF wait_list # <<>> THEN "do_wake" ELSE "wake_unlock"]
    /\ UNCHANGED <<count, qvars, state, adjustment, loop, next, held, ops, tg_call>>

\* spin_unlock_irqrestore; return sem
wake_unlock(t) ==
    /\ pc[t] = "wake_unlock"
    /\ wait_lock' = NULL
    /\ pc' = [pc EXCEPT ![t] = IF downgrading(caller[t]) THEN "holding" ELSE "idle"]
    /\ caller' = [caller EXCEPT ![t] = NULL]
    /\ UNCHANGED <<count, qvars, state, adjustment, loop, next, held, ops, tg_call>>

\* ------------------------------------------------------- specification
Step(t) ==
    \/ down_read(t) \/ down_write(t) \/ up_read(t) \/ up_write(t)
    \/ downgrade_write(t)
    \/ rwsem_down_read_failed(t) \/ rwsem_down_write_failed(t)
    \/ dfc_enqueue(t) \/ dfc_adjust(t) \/ dfc_unlock(t) \/ dfc_wait(t)
    \/ dfc_lock(t) \/ dfc_unlock_sleep(t) \/ schedule(t)
    \/ try_get_writer_sem(t) \/ tg_update(t) \/ tg_steal(t) \/ tg_rollback(t)
    \/ dfc_unlock_return(t)
    \/ do_wake_writer(t) \/ do_wake_scan(t) \/ do_wake_add(t)
    \/ do_wake_grant(t) \/ do_wake_notify(t) \/ do_wake_relink(t)
    \/ rwsem_wake(t) \/ rwsem_downgrade_wake(t) \/ wake_unlock(t)

Next == \E t \in Threads : Step(t)

Spec == Init /\ [][Next]_vars

\* Scheduling: a thread inside a semaphore operation, or holding the
\* semaphore, keeps running until it sleeps in schedule(); nothing obliges an
\* idle thread to call the semaphore again.
Progress(t) == pc[t] # "idle" /\ Step(t)

FairSpec == Spec /\ \A t \in Threads : WF_vars(Progress(t))

\* ------------------------------------------------------------ claims
\* thread t is inside rwsem_down_failed_common, past its list_add_tail
Enqueued(t) ==
    \/ pc[t] \in {"dfc_adjust", "dfc_unlock", "dfc_wait", "dfc_lock",
                  "dfc_unlock_sleep", "schedule", "try_get_writer_sem",
                  "tg_update", "tg_steal", "tg_rollback"}
    \/ pc[t] = "do_wake" /\ caller[t] = "rwsem_down_failed_common"

\* the waiters linked in wait_list whose thread is still in its blocking
\* acquire (a granted reader stays linked until the waker relinks the list)
Linked == {wait_list[i] : i \in 1..Len(wait_list)}
QueuedWriters == {t \in Linked : Enqueued(t) /\ IsWrite(flags[t])}
QueuedReaders == {t \in Linked : Enqueued(t) /\ IsRead(flags[t])}

\* C1: mutual exclusion. A thread that returned from acquire_write and has not
\* yet released or downgraded never coexists with another thread that holds
\* the semaphore for read or for write.
C1_MutualExclusion ==
    \A t \in Threads : held[t] = "write" =>
        \A u \in Threads \ {t} : held[u] = "none"

\* C1 witness: a writer holds the semaphore while
\* another thread is blocked in the queue
C1_Witness ==
    \E t \in Threads :
        /\ held[t] = "write"
        /\ pc[t] = "holding"
        /\ \E u \in Threads \ {t} : wait_list = <<u>> /\ pc[u] = "schedule"
        /\ count = 2 * RWSEM_WAITING_BIAS + RWSEM_ACTIVE_BIAS

\* the position of thread t's waiter in wait_list (0: not linked)
Position(t) ==
    IF \E i \in 1..Len(wait_list) : wait_list[i] = t
      THEN CHOOSE i \in 1..Len(wait_list) : wait_list[i] = t
      ELSE 0

\* thread t's try_get_writer_sem has just taken the semaphore (its atomic
\* update found no active lock); its waiter is still linked
Stealing(t) == pc[t] = "tg_steal"

\* C2 (as claimed): writer FIFO order. A queued writer never acquires the write
\* lock while a writer that was appended to wait_list before it is still queued.
C2_WriterFIFO ==
    \A t \in Threads : Stealing(t) =>
        \A i \in 1..(Position(t) - 1) : ~ IsWrite(flags[wait_list[i]])

\* C2 (amended): try_get_writer_sem succeeds only while the first waiter of
\* wait_list is a writer-waiter, which need not be the caller: a queued writer
\* never acquires the write lock while a reader-waiter heads the list.
C2_StealOnlyBehindWriterHead ==
    \A t \in Threads : Stealing(t) =>
        /\ Position(t) >= 1
        /\ IsWrite(flags[wait_list[1]])

\* C2 witness: a writer that is not the head of wait_list has stolen the
\* semaphore from the writer queued in front of it
C2_Witness ==
    \E t \in Threads :
        /\ Stealing(t)
        /\ Position(t) = 2
        /\ IsWrite(flags[wait_list[1]])

\* C3: reader liveness. Under fair scheduling, with every holder releasing,
\* every thread that enters rwsem_down_read_failed is eventually granted the
\* read lock and returns.
C3_ReaderLiveness ==
    \A t \in Threads :
        (pc[t] = "rwsem_down_read_failed") ~> (pc[t] = "holding" /\ held[t] = "read")

\* C4: head-writer liveness. Whenever a writer-waiter heads wait_list and the
\* active field of count is zero, that writer eventually holds the write lock.
C4_HeadWriterLiveness ==
    \A t \in Threads :
        (/\ wait_list # <<>>
         /\ wait_list[1] = t
         /\ IsWrite(flags[t])
         /\ Active(count) = 0) ~> (held[t] = "write")

\* the waiters in front of thread t's waiter
InFront(t) == {wait_list[i] : i \in 1..(Position(t) - 1)}

\* a reader-waiter's thread handle is cleared in this step
GrantedNow(r) == r \in QueuedReaders /\ task[r] # NULL /\ task'[r] = NULL

\* C5: no reordering across a writer boundary. A reader-waiter queued behind a
\* writer-waiter is never granted (its thread handle is never cleared) before
\* that writer has acquired the write lock: no grant happens with a writer
\* linked in front, and a writer leaves the list only by taking the lock.
C5_NoReorderAcrossWriter ==
    [][/\ \A r \in Threads : GrantedNow(r) => InFront(r) \cap QueuedWriters = {}
       /\ \A w \in QueuedWriters : w \notin QueuedWriters' => Stealing(w)]_vars

\* C5 witness: a downgrading wake found a writer-waiter at the head with a
\* reader-waiter behind it and returned without granting the reader
C5_Witness ==
    \E t \in Threads :
        /\ pc[t] = "wake_unlock"
        /\ caller[t] = "rwsem_downgrade_wake"
        /\ Len(wait_list) = 2
        /\ wait_list[1] \in QueuedWriters
        /\ wait_list[2] \in QueuedReaders
        /\ task[wait_list[2]] # NULL

\* the contiguous run of reader-waiters at the head of wait_list
HeadRun ==
    {wait_list[k] : k \in {i \in 1..Len(wait_list) :
                              \A j \in 1..i : wait_list[j] \in QueuedReaders}}

\* thread t takes a step of __rwsem_do_wake(sem, 1)
DowngradeWakeStep(t) ==
    /\ caller[t] = "rwsem_downgrade_wake"
    /\ pc[t] \in {"do_wake", "do_wake_add", "do_wake_grant", "do_wake_notify"}
    /\ pc'[t] # pc[t]

\* no thread other than t is between a fast-path attempt and its outcome, or
\* inside a queue-lock critical section
OthersQuiet(t) ==
    \A u \in Threads \ {t} : pc[u] \in {"idle", "holding", "schedule"}

\* a reader-waiter whose thread handle was cleared and that has not returned yet
Granted(u) == Enqueued(u) /\ IsRead(flags[u]) /\ task[u] = NULL

\* threads that hold the semaphore, or have been granted it and not yet returned
Holders == {u \in Threads : held[u] # "none" \/ Granted(u)}

\* C6: downgrade. The former writer counts as exactly one active read holder;
\* rwsem_downgrade_wake grants and wakes only the reader-waiters of the
\* contiguous run at the head of wait_list, all of them, adding one active unit
\* for each; no writer-waiter is woken, granted or unlinked by the call.
C6_Downgrade ==
    [][\A t \in Threads :
        /\ (pc[t] = "holding" /\ held[t] = "write" /\ held'[t] = "read")
              => Active(count') = Active(count)
        /\ (pc[t] = "wake_unlock" /\ caller[t] = "rwsem_downgrade_wake"
                                  /\ OthersQuiet(t))
              => (held[t] = "read" /\ Active(count) = Cardinality(Holders))
        /\ DowngradeWakeStep(t) =>
              /\ \A w \in QueuedWriters :
                    /\ w \in QueuedWriters'
                    /\ task'[w] = task[w]
                    /\ state'[w] = state[w]
              /\ \A r \in Threads \ {t} :
                    /\ GrantedNow(r) =>
                          (r \in QueuedReaders /\ InFront(r) \cap QueuedWriters = {})
                    /\ state'[r] # state[r] =>
                          (pc[t] = "do_wake_notify" /\ r = wait_list[next[t]])
              /\ (pc[t] = "do_wake" /\ pc'[t] = "do_wake_add")
                    => loop'[t] = Cardinality(HeadRun)
              /\ pc[t] = "do_wake_add"
                    => Active(count') = Active(count) + loop[t]
              /\ pc'[t] = "wake_unlock"
                    => (wait_list' = <<>> \/ wait_list'[1] \in QueuedWriters')]_vars

\* C6 witness: a downgrading wake has granted the reader-waiter at the head
\* and left the writer-waiter queued behind it
C6_Witness ==
    \E t \in Threads : \E r \in Threads : \E w \in QueuedWriters :
        /\ pc[t] = "wake_unlock"
        /\ caller[t] = "rwsem_downgrade_wake"
        /\ held[t] = "read"
        /\ Granted(r)
        /\ wait_list = <<w>>
        /\ task[w] = w

\* C7: batch reader grant on release. When rwsem_wake ran with no active
\* holder and a run of reader-waiters at the head of wait_list, it has granted
\* and unlinked that run: on its return no waiting reader heads the list.
C7_BatchReaderGrant ==
    \A t \in Threads :
        (/\ pc[t] = "wake_unlock"
         /\ caller[t] = "rwsem_wake"
         /\ OthersQuiet(t)
         /\ \A u \in Threads : held[u] = "none")
        => (wait_list = <<>> \/ wait_list[1] \notin QueuedReaders)

\* C8: no cutting in by newcomers. While a writer-waiter is linked in
\* wait_list, the fast-path attempt (read or write) of a thread that is not
\* queued fails and sends it to the blocking acquire, which appends its waiter
\* at the tail of wait_list.
C8_NoCutIn ==
    [][\A t \in Threads :
        /\ (pc[t] = "idle" /\ pc'[t] # "idle" /\ QueuedWriters # {})
              => (/\ pc'[t] \in {"rwsem_down_read_failed", "rwsem_down_write_failed"}
                  /\ held'[t] = "none")
        /\ (pc[t] = "dfc_enqueue" /\ pc'[t] # "dfc_enqueue")
              => (/\ wait_list' = Append(wait_list, t)
                  /\ QueuedWriters \subseteq InFront(t)')]_vars

\* C8 witness: in the window after the holder released and before the queued
\* writer has been resumed, a newcomer has been appended behind that writer
C8_Witness ==
    \E w \in QueuedWriters : \E t \in Threads \ {w} : \E u \in Threads \ {w, t} :
        /\ pc[u] = "rwsem_wake"
        /\ pc[w] = "schedule"
        /\ state[w] = TASK_UNINTERRUPTIBLE
        /\ wait_list = <<w, t>>
        /\ pc[t] = "dfc_adjust"
        /\ \A x \in Threads : held[x] = "none"

\* no thread is in the middle of a fast-path attempt or inside a queue-lock
\* critical section
Quiescent ==
    /\ wait_lock = NULL
    /\ \A t \in Threads : pc[t] \in {"idle", "holding", "schedule"}

\* C9: counter/queue consistency. In every quiescent state count equals
\* RWSEM_UNLOCKED_VALUE if and only if there is no active holder and wait_list
\* is empty.
C9_CounterQueueConsistency ==
    Quiescent =>
        (count = RWSEM_UNLOCKED_VALUE
            <=> (Holders = {} /\ wait_list = <<>>))

\* the lock has no holder, no waiter and no thread inside an operation
Idle ==
    /\ wait_list = <<>>
    /\ wait_lock = NULL
    /\ \A t \in Threads : pc[t] = "idle" /\ held[t] = "none"

\* thread t alone holds the write lock of an otherwise idle semaphore
SoleWriter(t) ==
    /\ pc[t] = "holding" /\ held[t] = "write"
    /\ wait_list = <<>>
    /\ wait_lock = NULL
    /\ \A u \in Threads \ {t} : pc[u] = "idle" /\ held[u] = "none"

Returned(t) == ~ Enqueued(t)

\* the waker that is inside the grant loop of __rwsem_do_wake has walked past
\* position i of wait_list and not yet relinked the list
WalkedPast(i) ==
    /\ wait_lock # NULL
    /\ \/ pc[wait_lock] = "do_wake_grant" /\ i < next[wait_lock]
       \/ pc[wait_lock] = "do_wake_notify" /\ i <= next[wait_lock]

\* C11 (as claimed): granted implies unlinked. A waiter whose task field has
\* been cleared is no longer linked in wait_list, and a thread that has
\* returned from the blocking acquire has no waiter reachable from wait_list.
C11_GrantedImpliesUnlinked ==
    \A t \in Linked : Enqueued(t) /\ task[t] # NULL

\* C11 (amended): a waiter whose task field has been cleared, or whose thread
\* has already returned, is linked in wait_list only while the waker that
\* granted it still holds wait_lock inside its grant loop and has walked
\* past it; once wait_lock is released every linked waiter is live and
\* ungranted.
C11_GrantedUnlinkedAtRelink ==
    \A i \in 1..Len(wait_list) :
        \/ Enqueued(wait_list[i]) /\ task[wait_list[i]] # NULL
        \/ WalkedPast(i)

\* C11 witness: a granted reader has returned from the blocking acquire and
\* holds the lock while its waiter is still linked in wait_list
C11_Witness ==
    \E t \in Linked :
        /\ pc[t] = "holding"
        /\ held[t] = "read"
        /\ Returned(t)
        /\ WalkedPast(Position(t))

\* thread t's try_get_writer_sem has returned 1 and t has not yet released
\* wait_lock
StealReturned(t) == pc[t] = "dfc_unlock_return"

\* C12 (as claimed): steal success post-state. When try_get_writer_sem
\* returns 1 the caller's waiter is unlinked from wait_list, waiter->task is
\* cleared, and the active field of count records exactly one holder.
C12_StealPostState ==
    \A t \in Threads : StealReturned(t) =>
        /\ t \notin Linked
        /\ task[t] = NULL
        /\ Active(count) = 1

\* C12 (amended): when try_get_writer_sem returns 1 the caller's waiter is
\* unlinked from wait_list, waiter->task still names the caller (it is not
\* cleared), the caller is TASK_RUNNING and holds wait_lock, and, no other
\* thread being in the middle of a fast-path attempt, the active field of
\* count records exactly one holder.
C12_StealPostStateTaskKept ==
    \A t \in Threads : StealReturned(t) =>
        /\ t \notin Linked
        /\ task[t] = t
        /\ state[t] = TASK_RUNNING
        /\ wait_lock = t
        /\ OthersQuiet(t) => (Active(count) = 1 /\ Holders = {})

\* C12 witness: a writer's steal has succeeded with another waiter left in
\* wait_list
C12_Witness ==
    \E t \in Threads :
        /\ StealReturned(t)
        /\ OthersQuiet(t)
        /\ wait_list # <<>>
        /\ tg_call[t].entry = <<t>> \o wait_list

\* thread t's try_get_writer_sem has returned 0 and t has not yet released
\* wait_lock (only writers call it)
StealFailed(t) ==
    pc[t] = "dfc_unlock_sleep" /\ flags[t] = RWSEM_WAITING_FOR_WRITE

\* C13: steal failure leaves state unchanged. Whenever try_get_writer_sem
\* returns 0, wait_list is what it was on entry, with the caller's waiter
\* still linked at the same position, and the net change the call made to
\* count is zero.
C13_StealFailureUnchanged ==
    \A t \in Threads : StealFailed(t) =>
        /\ wait_list = tg_call[t].entry
        /\ Position(t) >= 1
        /\ tg_call[t].net = 0

\* C13 witness: a steal attempt added its adjustment, found an active lock,
\* rolled back and returned 0
C13_Witness ==
    \E t \in Threads :
        /\ StealFailed(t)
        /\ tg_call[t].tries >= 1
        /\ Len(wait_list) = 2

\* thread t is inside try_get_writer_sem
InSteal(t) ==
    pc[t] \in {"try_get_writer_sem", "tg_update", "tg_rollback", "tg_steal"}

\* C14: steal retry terminates. Every call of try_get_writer_sem returns; it
\* goes round its retry loop again only when the roll-back observes an active
\* field of zero, and an update that then finds the active field still zero
\* succeeds, so the caller never spins forever while holding wait_lock.
C14_StealRetryTerminates ==
    /\ \A t \in Threads :
          InSteal(t) ~> (StealFailed(t) \/ StealReturned(t))
    /\ [][\A t \in Threads :
            /\ (pc[t] = "tg_rollback" /\ pc'[t] = "tg_update")
                  => Active(count') = 0
            /\ (pc[t] = "tg_update" /\ Active(count) = 0)
                  => pc'[t] \in {"tg_update", "tg_steal"}
            /\ InSteal(t) => wait_lock = t]_vars

\* C14 witness: a call of try_get_writer_sem that went round its retry loop
\* has returned
C14_Witness ==
    \E t \in Threads :
        /\ StealFailed(t) \/ StealReturned(t)
        /\ tg_call[t].tries = 2

\* C15: writer-head wake. A non-downgrading __rwsem_do_wake whose head waiter
\* is a writer-waiter wakes the thread of exactly that head waiter and no
\* other, and leaves count and wait_list unchanged.
C15_WriterHeadWake ==
    [][\A t \in Threads :
        (/\ pc[t] = "do_wake"
         /\ ~ downgrading(caller[t])
         /\ pc'[t] # "do_wake"
         /\ wait_list # <<>>
         /\ wait_list[1] \in QueuedWriters)
        => (/\ state' = wake_up_process(state, task[wait_list[1]])
            /\ count' = count
            /\ wait_list' = wait_list)]_vars

\* the waiting field of a count value (the part above the active field)
Waiting(c) == c - Active(c)

\* the readers of the batch that the waker t has counted into count and not
\* yet granted
Ungranted(t) ==
    IF pc[t] = "do_wake_notify" THEN loop[t] - 1 ELSE loop[t]

C17_PublishBeforeNotify ==
    /\ [](/\ Active(count) >= Cardinality(Holders)
          /\ \A t \in Threads :
                /\ pc[t] \in {"do_wake_grant", "do_wake_notify"}
                      => Active(count) >= Cardinality(Holders) + Ungranted(t)
                /\ pc[t] = "do_wake_notify"
                      => task[wait_list[next[t]]] = NULL)
    /\ [][\A r \in Threads :
            /\ GrantedNow(r) =>
                  /\ state' = state
                  /\ \E t \in Threads \ {r} :
                        /\ pc[t] = "do_wake_grant"
                        /\ pc'[t] = "do_wake_notify"
                        /\ wait_list[next[t]] = r
            /\ (state[r] = TASK_UNINTERRUPTIBLE /\ state'[r] = TASK_RUNNING
                  /\ \E t \in Threads : pc[t] = "do_wake_notify" /\ pc'[t] # pc[t])
                  => task[r] = NULL]_vars

\* C17 witness: a reader has found its task field cleared and returned before
\* the waker has called wake_up_process for it
C17_Witness ==
    \E t \in Threads : \E r \in Threads \ {t} :
        /\ pc[t] = "do_wake_notify"
        /\ wait_list[next[t]] = r
        /\ pc[r] = "holding"
        /\ held[r] = "read"
        /\ Active(count) = 2

\* thread t returns from rwsem_down_failed_common in this step
ReturnsNow(t) ==
    /\ Enqueued(t) \/ StealReturned(t)
    /\ pc'[t] = "holding"

\* C18: no return without a grant. A thread returns from
\* rwsem_down_failed_common only if, for a reader, its task field has been
\* cleared and its active unit is in count, or, for a writer, its own
\* try_get_writer_sem has succeeded; a thread woken without a grant stays in
\* the wait loop.
C18_NoReturnWithoutGrant ==
    [][\A t \in Threads :
        /\ ReturnsNow(t) =>
              \/ /\ pc[t] = "dfc_wait"
                 /\ IsRead(flags[t])
                 /\ task[t] = NULL
                 /\ Active(count) >= 1
                 /\ held'[t] = "read"
              \/ /\ StealReturned(t)
                 /\ IsWrite(flags[t])
                 /\ tg_call[t].tries >= 1
                 /\ tg_call[t].net = steal_adjustment(tg_call[t].entry, t)
                 /\ held'[t] = "write"
        /\ (pc[t] = "dfc_wait" /\ pc'[t] # "dfc_wait" /\ task[t] # NULL)
              => (pc'[t] = "dfc_lock" /\ held'[t] = "none")
        /\ (held[t] = "none" /\ held'[t] # "none")
              => (pc[t] = "idle" \/ ReturnsNow(t))]_vars

\* C18 witness: a queued reader in schedule() has been woken without a grant:
\* it is runnable with its task field still set
C18_Witness ==
    \E t \in Threads :
        /\ pc[t] = "schedule"
        /\ IsRead(flags[t])
        /\ task[t] = t
        /\ state[t] = TASK_RUNNING

\* thread t is between a lock and the matching unlock of sem->wait_lock
InCritical(t) ==
    pc[t] \in {"dfc_adjust", "dfc_unlock", "dfc_unlock_sleep",
               "dfc_unlock_return", "try_get_writer_sem", "tg_update",
               "tg_rollback", "tg_steal", "do_wake", "do_wake_add",
               "do_wake_grant", "do_wake_notify", "wake_unlock"}

\* C19: queue-lock discipline. At most one thread is inside a wait_lock
\* critical section, and it is the holder of wait_lock; no thread is in
\* schedule(), or has returned from a slow-path function, with wait_lock
\* held; wait_list changes only in a step of the thread that holds wait_lock.
C19_QueueLockDiscipline ==
    /\ [](\A t \in Threads : InCritical(t) <=> wait_lock = t)
    /\ [][wait_list' # wait_list =>
            \E t \in Threads :
                /\ pc'[t] # pc[t]
                /\ wait_lock' = t
                /\ wait_lock \in {t, NULL}]_vars

\* C19 witness: two threads wait for wait_lock while a third is inside its
\* critical section
C19_Witness ==
    \E t \in Threads :
        /\ wait_lock = t
        /\ InCritical(t)
        /\ \A u \in Threads \ {t} :
              pc[u] \in {"dfc_enqueue", "dfc_lock", "rwsem_wake",
                         "rwsem_downgrade_wake"}

\* C20: no lost wake-up. Once a waiter's task field has been cleared, its
\* thread eventually leaves the wait loop and returns holding the read lock,
\* under fair scheduling.
C20_NoLostWakeup ==
    \A t \in Threads :
        Granted(t) ~> (pc[t] = "holding" /\ held[t] = "read")

\* C20 witness: a reader's task field has been cleared while it sleeps in
\* schedule(), and the waker has not yet called wake_up_process for it
C20_Witness ==
    \E t \in Threads : \E w \in Threads \ {t} :
        /\ Granted(t)
        /\ pc[t] = "schedule"
        /\ state[t] = TASK_UNINTERRUPTIBLE
        /\ pc[w] = "do_wake_notify"
        /\ wait_list[next[w]] = t

====
